---- MODULE Spec2Model ----
(***************************************************************************)
(* Model of the caching server of wbjee-college-predictor                  *)
(* (src/unnamed/part_000, lines 17-303): the in-memory TTL cache, its      *)
(* hit/miss statistics, the interval timer that sweeps it, and the HTTP    *)
(* handlers /api/data, /api/cache-stats, /api/cache/status and             *)
(* /api/cache/clear that read and write them.                              *)
(*                                                                         *)
(* Node runs every handler and timer callback to completion on one thread  *)
(* (fs.readFileSync is synchronous), so each handler is one atomic action. *)
(*                                                                         *)
(* JavaScript values are records [type, val]; a string's val is the        *)
(* sequence of its characters, so that '' is <<>> and startsWith is a      *)
(* prefix test.  Time is in milliseconds, as Date.now() reports it.        *)
(***************************************************************************)
EXTENDS Integers, Sequences, FiniteSets, TLC

VARIABLES
    cache,       \* const cache = new Map(): key -> [data, timestamp]
    cacheStats,  \* let cacheStats = {hits, misses, totalRequests}
    now,         \* the value Date.now() returns
    nextSweep,   \* the time the setInterval timer fires next
    res,         \* the response the last handler sent
    io,          \* what the last handler did with the data file
    loadFailed,  \* history: a file load failed and no setCachedData completed since
    pc,          \* where the handler that is running stands, statement by statement
    sw           \* the browser side: Cache Storage and the service worker's activation

server == <<cache, cacheStats, now, nextSweep, res, io, loadFailed>>

vars == <<cache, cacheStats, now, nextSweep, res, io, loadFailed, pc, sw>>

----------------------------------------------------------------------------
(* Bounds of the model *)

MaxGrid == 4        \* the clock is sampled up to MaxGrid * GridStep
MaxJitter == 1      \* ... and up to MaxJitter ms after each grid point
MaxRequests == 3    \* lookups counted between two clears
MaxLag == 1         \* ms by which the interval timer may fire late
MaxOldCaches == 4   \* browser caches left by earlier versions of the service worker

\* The clock is sampled around the times the sweep timer is due
GridStep == 10 * 60 * 1000

TimePoints == { g * GridStep + j : g \in 0..MaxGrid, j \in 0..MaxJitter }

----------------------------------------------------------------------------
(* Program constants *)

CACHE_TTL == 30 * 60 * 1000

SWEEP_INTERVAL == 10 * 60 * 1000

cacheKey == <<"wbjee_full_data">>

allowedOrigins ==
    << <<"http://localhost:3000">>,
       <<"https://wbjee-college-predictor.vercel.app">>,
       <<"https://wbjee-college-predictor.vercel.app", "/">> >>

----------------------------------------------------------------------------
(* JavaScript values *)

Null == [type |-> "null", val |-> <<>>]

Undefined == [type |-> "undefined", val |-> <<>>]

Str(s) == [type |-> "string", val |-> s]

\* ToBoolean: null, undefined and the empty string are falsy
Truthy(v) == v.type = "string" /\ Len(v.val) > 0

\* String.prototype.startsWith
StartsWith(s, p) == Len(p) <= Len(s) /\ SubSeq(s, 1, Len(p)) = p

\* What fs.readFileSync(dataPath, 'utf8') can give: the file's text, or it throws
Payloads == { Str(<<>>), Str(<<"a">>), Str(<<"b">>) }

LoadError == [type |-> "error", val |-> <<"ENOENT">>]

FileReads == Payloads \cup {LoadError}

\* What req.get('Referer') can give
Referers ==
    { Undefined,
      Str(<<>>),
      Str(<<"https://wbjee-college-predictor.vercel.app", "/", "x">>),
      Str(<<"http://localhost:3000", "0", ".evil.example">>),
      Str(<<"https://evil.example", "/">>) }

----------------------------------------------------------------------------
(* The cache: lines 28-57 *)

EmptyCache == << >>

Has(c, key) == key \in DOMAIN c

\* Map.prototype.set
MapSet(c, key, item) == [k \in DOMAIN c \cup {key} |-> IF k = key THEN item ELSE c[k]]

\* Map.prototype.delete for a set of keys
MapDelete(c, keys) == [k \in DOMAIN c \ keys |-> c[k]]

getCachedData_lte(c, key, t) ==
    IF Has(c, key) /\ t - c[key].timestamp <= CACHE_TTL
    THEN c[key].data
    ELSE Null

getCachedData(c, key, t) ==
    IF Has(c, key) /\ t - c[key].timestamp < CACHE_TTL
    THEN c[key].data
    ELSE Null

setCachedData_keyPerPayload(c, key, data, t) ==
    MapSet(c, key \o data.val, [data |-> data, timestamp |-> t])

setCachedData_keepTimestamp(c, key, data, t) ==
    MapSet(c, key, [data |-> data,
                    timestamp |-> IF Has(c, key) THEN c[key].timestamp ELSE t])

setCachedData(c, key, data, t) ==
    MapSet(c, key, [data |-> data, timestamp |-> t])

clearExpiredCache_twiceTTL(c, t) ==
    MapDelete(c, { k \in DOMAIN c : t - c[k].timestamp > 2 * CACHE_TTL })

clearExpiredCache_gte(c, t) ==
    MapDelete(c, { k \in DOMAIN c : t - c[k].timestamp >= CACHE_TTL })

clearExpiredCache(c, t) ==
    MapDelete(c, { k \in DOMAIN c : t - c[k].timestamp > CACHE_TTL })

----------------------------------------------------------------------------
(* Statistics: lines 59-74 *)

ZeroStats == [hits |-> 0, misses |-> 0, totalRequests |-> 0]

CountHit_dropMisses(s) ==
    [hits |-> s.hits + 1, misses |-> 0, totalRequests |-> s.totalRequests + 1]

\* cacheStats.hits++; cacheStats.totalRequests++
CountHit(s) == [s EXCEPT !.hits = @ + 1, !.totalRequests = @ + 1]

CountMiss_noTotal(s) == [s EXCEPT !.misses = @ + 1]

\* cacheStats.misses++; cacheStats.totalRequests++
CountMiss(s) == [s EXCEPT !.misses = @ + 1, !.totalRequests = @ + 1]

\* The decimal text of h hundredths with two decimals, and a '%'
Percent(h) ==
    ToString(h \div 100) \o "." \o ToString((h % 100) \div 10) \o ToString(h % 10) \o "%"

Hundredths_floor(hits, total) == (hits * 10000) \div total

\* ((hits / totalRequests) * 100).toFixed(2): the ratio in hundredths of a
\* percent, rounded to the nearest (no ratio of counters this small is a tie
\* or is moved across one by the double arithmetic).
Hundredths(hits, total) == (hits * 20000 + total) \div (2 * total)

hitRate(s) ==
    IF s.totalRequests > 0
    THEN Percent(Hundredths(s.hits, s.totalRequests))
    ELSE "0%"

\* process.memoryUsage() is left out: it reports on the process, not the cache
getCacheStats(c, s) ==
    [ hits |-> s.hits,
      misses |-> s.misses,
      totalRequests |-> s.totalRequests,
      hitRate |-> hitRate(s),
      cacheSize |-> Cardinality(DOMAIN c) ]

----------------------------------------------------------------------------
(* Responses *)

NoIO == [read |-> FALSE, got |-> Null]

Response(route, status, body, xcache) ==
    [route |-> route, status |-> status, body |-> body, xCacheStatus |-> xcache]

NoResponse == Response("none", 0, Null, "")

\* No handler is running
Idle == [at |-> "idle", previousSize |-> 0]

\* No service worker is activating
SwNone == [phase |-> "none", caches |-> {}, initial |-> {}, cacheNames |-> {}, pending |-> {}]

\* The server when it starts listening
ServerInit ==
    /\ cache = EmptyCache
    /\ cacheStats = ZeroStats
    /\ now = 0
    /\ nextSweep = SWEEP_INTERVAL
    /\ res = NoResponse
    /\ io = NoIO
    /\ loadFailed = FALSE
    /\ pc = Idle

Init ==
    /\ ServerInit
    /\ sw = SwNone

----------------------------------------------------------------------------
(* The clock and the timer *)

\* Time passes.  A timer callback runs no earlier than its due time and, the
\* event loop being busy with a handler (readFileSync blocks it), up to MaxLag
\* later.
Tick(t) ==
    /\ now < t
    /\ t <= nextSweep + MaxLag
    /\ now' = t
    /\ UNCHANGED <<cache, cacheStats, nextSweep, res, io, loadFailed>>

\* setInterval(clearExpiredCache, 10 * 60 * 1000): Node re-arms the timer
\* from the time the callback ran
Sweep ==
    /\ now >= nextSweep
    /\ cache' = clearExpiredCache(cache, now)
    /\ nextSweep' = now + SWEEP_INTERVAL
    /\ UNCHANGED <<cacheStats, now, res, io, loadFailed>>

----------------------------------------------------------------------------
(* Handlers *)

RefererAllowed_exact(referer) ==
    \E i \in 1..Len(allowedOrigins) : referer.val = allowedOrigins[i]

\* allowedOrigins.some(allowed => referer.startsWith(allowed))
RefererAllowed(referer) ==
    \E i \in 1..Len(allowedOrigins) : StartsWith(referer.val, allowedOrigins[i])

Blocked(referer) == Truthy(referer) /\ ~RefererAllowed(referer)

\* res.setHeader('X-Cache-Status', data ? 'HIT' : 'MISS')
XCacheStatus(data) == IF Truthy(data) THEN "HIT" ELSE "MISS"

LoadAndStore_cacheError(c, file, t) ==
    setCachedData(c, cacheKey,
                  IF file = LoadError THEN Str(<<"Failed to load data">>) ELSE file, t)

\* Lines 170-175: readFileSync throws before setCachedData is reached, or
\* gives the text that setCachedData then stores
LoadAndStore(c, file, t) ==
    IF file = LoadError THEN c ELSE setCachedData(c, cacheKey, file, t)

\* app.get('/api/data'): referer is the request's Referer header, file is
\* what readFileSync gives if this request gets to call it
DataRequest(referer, file) ==
    /\ cacheStats.totalRequests < MaxRequests
    /\ UNCHANGED <<now, nextSweep>>
    /\ IF Blocked(referer)
       THEN /\ res' = Response("data", 403, Str(<<"Access denied">>), "")
            /\ io' = NoIO
            /\ UNCHANGED <<cache, cacheStats, loadFailed>>
       ELSE LET data == getCachedData(cache, cacheKey, now) IN
            IF Truthy(data)
            THEN /\ cacheStats' = CountHit(cacheStats)
                 /\ res' = Response("data", 200, data, XCacheStatus(data))
                 /\ io' = NoIO
                 /\ UNCHANGED <<cache, loadFailed>>
            ELSE /\ cacheStats' = CountMiss(cacheStats)
                 /\ io' = [read |-> TRUE, got |-> file]
                 /\ cache' = LoadAndStore(cache, file, now)
                 /\ IF file = LoadError
                    THEN /\ res' = Response("data", 500, Str(<<"Failed to load data">>), "")
                         /\ loadFailed' = TRUE
                    ELSE /\ res' = Response("data", 200, file, XCacheStatus(file))
                         /\ loadFailed' = FALSE

\* app.get('/api/cache-stats')
CacheStatsRequest ==
    /\ res' = Response("cache-stats", 200,
                       [stats |-> getCacheStats(cache, cacheStats), timestamp |-> now], "")
    /\ io' = NoIO
    /\ UNCHANGED <<cache, cacheStats, now, nextSweep, loadFailed>>

\* app.get('/api/cache/status'); its timestamp field is left out
CacheStatusRequest ==
    /\ res' = Response("cache-status", 200,
                       [stats |-> getCacheStats(cache, cacheStats),
                        cacheEntries |-> DOMAIN cache], "")
    /\ io' = NoIO
    /\ UNCHANGED <<cache, cacheStats, now, nextSweep, loadFailed>>

PreviousSize_afterClear(c) == Cardinality(DOMAIN EmptyCache)

\* const previousSize = cache.size
PreviousSize(c) == Cardinality(DOMAIN c)

\* app.post('/api/cache/clear')
CacheClear ==
    /\ cache' = EmptyCache
    /\ cacheStats' = ZeroStats
    /\ res' = Response("cache-clear", 200, [clearedEntries |-> PreviousSize(cache)], "")
    /\ io' = NoIO
    /\ UNCHANGED <<now, nextSweep, loadFailed>>

\* app.use('/api/', apiLimiter): the limiter answers 429 before any handler
\* runs once the caller has used up its window; whether it has is the
\* library's state, taken here as a free choice
RateLimited ==
    /\ res' = Response("api", 429, Str(<<"Too many requests from this IP">>), "")
    /\ io' = NoIO
    /\ UNCHANGED <<cache, cacheStats, now, nextSweep, loadFailed>>

\* Every handler and the timer callback run from start to end in one turn of
\* the event loop
Next ==
    \/ \E t \in TimePoints : Tick(t) /\ UNCHANGED <<pc, sw>>
    \/ Sweep /\ UNCHANGED <<pc, sw>>
    \/ \E referer \in Referers, file \in FileReads :
          DataRequest(referer, file) /\ UNCHANGED <<pc, sw>>
    \/ CacheStatsRequest /\ UNCHANGED <<pc, sw>>
    \/ CacheStatusRequest /\ UNCHANGED <<pc, sw>>
    \/ CacheClear /\ UNCHANGED <<pc, sw>>
    \/ RateLimited /\ UNCHANGED <<pc, sw>>

Spec == Init /\ [][Next]_vars

----------------------------------------------------------------------------
(* The clear handler statement by statement, lines 241-258 *)

EventLoopFree_yields == TRUE

\* The event loop starts a callback only when the running one has returned;
\* no handler awaits or defers anything
EventLoopFree == pc.at = "idle"

\* const previousSize = cache.size
ClearSize ==
    /\ EventLoopFree
    /\ pc' = [at |-> "sized", previousSize |-> PreviousSize(cache)]
    /\ UNCHANGED <<server, sw>>

\* cache.clear()
ClearTable ==
    /\ pc.at = "sized"
    /\ cache' = EmptyCache
    /\ pc' = [pc EXCEPT !.at = "emptied"]
    /\ UNCHANGED <<cacheStats, now, nextSweep, res, io, loadFailed, sw>>

\* cacheStats = { hits: 0, misses: 0, totalRequests: 0 }
ClearCounters ==
    /\ pc.at = "emptied"
    /\ cacheStats' = ZeroStats
    /\ pc' = [pc EXCEPT !.at = "reset"]
    /\ UNCHANGED <<cache, now, nextSweep, res, io, loadFailed, sw>>

\* res.json({ ..., clearedEntries: previousSize, ... })
ClearRespond ==
    /\ pc.at = "reset"
    /\ res' = Response("cache-clear", 200, [clearedEntries |-> pc.previousSize], "")
    /\ io' = NoIO
    /\ pc' = Idle
    /\ UNCHANGED <<cache, cacheStats, now, nextSweep, loadFailed, sw>>

\* Time passes while a handler runs; the timer callback and the other
\* handlers wait for the event loop
NextSteps ==
    \/ \E t \in TimePoints : Tick(t) /\ UNCHANGED <<pc, sw>>
    \/ EventLoopFree /\ Sweep /\ UNCHANGED <<pc, sw>>
    \/ \E referer \in Referers, file \in FileReads :
          EventLoopFree /\ DataRequest(referer, file) /\ UNCHANGED <<pc, sw>>
    \/ EventLoopFree /\ CacheStatsRequest /\ UNCHANGED <<pc, sw>>
    \/ ClearSize
    \/ ClearTable
    \/ ClearCounters
    \/ ClearRespond

SpecSteps == Init /\ [][NextSteps]_vars

----------------------------------------------------------------------------
(* The cache functions on their own, called with any key: lines 32-54 *)

\* Keys a caller may pass
Keys == { cacheKey, <<"k2">> }

\* setCachedData(key, data)
SetCall(key, data) ==
    /\ cache' = setCachedData(cache, key, data, now)
    /\ UNCHANGED <<cacheStats, now, nextSweep, res, io, loadFailed, pc, sw>>

NextSet ==
    \/ \E t \in TimePoints : Tick(t) /\ UNCHANGED <<pc, sw>>
    \/ Sweep /\ UNCHANGED <<pc, sw>>
    \/ \E key \in Keys, data \in Payloads : SetCall(key, data)

SpecSet == Init /\ [][NextSet]_vars

----------------------------------------------------------------------------
(* The service worker's activation: src/public/sw.js, lines 55-67 *)

CACHE_NAME == "wbjee-finder-v5"

\* Names of caches the browser may hold when the worker is activated
CacheNames ==
    {CACHE_NAME} \cup { "wbjee-finder-v" \o ToString(i) : i \in 1..MaxOldCaches }

ShouldDelete_same(cacheName) == cacheName = CACHE_NAME

\* if (cacheName !== CACHE_NAME)
ShouldDelete(cacheName) == cacheName # CACHE_NAME

\* The worker is installed and waits for its activate event; the browser
\* holds any set of caches
SwInit ==
    \E held \in SUBSET CacheNames :
        sw = [phase |-> "installed", caches |-> held, initial |-> held,
              cacheNames |-> {}, pending |-> {}]

\* The activate event: event.waitUntil(caches.keys()...)
SwActivate ==
    /\ sw.phase = "installed"
    /\ sw' = [sw EXCEPT !.phase = "keys"]
    /\ UNCHANGED <<server, pc>>

\* caches.keys() resolves; the map starts caches.delete for each name to delete
SwKeys ==
    /\ sw.phase = "keys"
    /\ sw' = [sw EXCEPT !.phase = "deleting",
                        !.cacheNames = sw.caches,
                        !.pending = { n \in sw.caches : ShouldDelete(n) }]
    /\ UNCHANGED <<server, pc>>

\* One caches.delete(cacheName) completes
SwDeleted(cacheName) ==
    /\ sw.phase = "deleting"
    /\ cacheName \in sw.pending
    /\ sw' = [sw EXCEPT !.caches = @ \ {cacheName}, !.pending = @ \ {cacheName}]
    /\ UNCHANGED <<server, pc>>

\* Promise.all resolves, and with it the promise given to waitUntil
SwActivated ==
    /\ sw.phase = "deleting"
    /\ sw.pending = {}
    /\ sw' = [sw EXCEPT !.phase = "activated"]
    /\ UNCHANGED <<server, pc>>

InitSw == ServerInit /\ SwInit

NextSw ==
    \/ SwActivate
    \/ SwKeys
    \/ \E cacheName \in CacheNames : SwDeleted(cacheName)
    \/ SwActivated

SpecSw == InitSw /\ [][NextSw]_vars

----------------------------------------------------------------------------
(* Properties *)

\* The step is a /api/data request that got past the Referer check.  Such a
\* request leaves in io what readFileSync gave it, if it called it, and does
\* not look at the file otherwise.
DataStep ==
    /\ res'.route = "data"
    /\ \E referer \in Referers : ~Blocked(referer) /\ DataRequest(referer, io'.got)

Age(c, key, t) == t - c[key].timestamp

Abs(n) == IF n < 0 THEN 0 - n ELSE n

\* C1: in every reachable state, whatever requests (also ones whose file load
\* failed), sweeps, stats reads and clears led to it,
\* totalRequests = hits + misses.
C1_TotalIsHitsPlusMisses ==
    cacheStats.totalRequests = cacheStats.hits + cacheStats.misses

\* A load has failed, and both hits and misses have been counted
C1_Witness ==
    /\ loadFailed
    /\ res.status = 500
    /\ cacheStats.hits >= 1
    /\ cacheStats.misses >= 2

\* C2: a request that finds the entry the previous request has just stored,
\* less than TTL after it was stored, is served exactly the stored payload and
\* is counted as a hit (hits and totalRequests go up by one, misses stays),
\* whatever the payload is.
C2_SetThenGetIsHit ==
    [][ ( /\ DataStep
            /\ io.read /\ io.got # LoadError
            /\ Has(cache, cacheKey)
            /\ cache[cacheKey].data = io.got
            /\ Age(cache, cacheKey, now) < CACHE_TTL )
          => ( /\ res'.status = 200
               /\ res'.body = io.got
               /\ cacheStats'.hits = cacheStats.hits + 1
               /\ cacheStats'.totalRequests = cacheStats.totalRequests + 1
               /\ cacheStats'.misses = cacheStats.misses ) ]_vars

\* C3: a request that finds an entry stored TTL or more ago, which no sweep
\* has removed, is counted as a miss and is answered from the file, not with
\* the stale value; and every request counted as a hit is served a value
\* stored less than TTL ago.
C3_ExpiredIsMiss ==
    [][ DataStep
          => ( /\ ( Has(cache, cacheKey) /\ Age(cache, cacheKey, now) >= CACHE_TTL )
                  => ( /\ cacheStats'.misses = cacheStats.misses + 1
                       /\ cacheStats'.hits = cacheStats.hits
                       /\ io'.read
                       /\ res'.status = 200 => res'.body = io'.got )
               /\ ( cacheStats'.hits > cacheStats.hits )
                  => ( /\ Has(cache, cacheKey)
                       /\ Age(cache, cacheKey, now) < CACHE_TTL
                       /\ res'.body = cache[cacheKey].data ) ) ]_vars

\* A non-empty entry exactly TTL old is still in the table, and the request
\* made since it was stored went to the file (and failed there)
C3_Witness ==
    /\ Has(cache, cacheKey)
    /\ Truthy(cache[cacheKey].data)
    /\ Age(cache, cacheKey, now) = CACHE_TTL
    /\ res.status = 500
    /\ io.read

\* C4: every lookup adds one to totalRequests and one to exactly one of hits
\* and misses: to hits, returning the value, iff an unexpired entry exists for
\* the key; to misses otherwise.
C4_LookupCounts ==
    [][ DataStep
          => ( /\ cacheStats'.totalRequests = cacheStats.totalRequests + 1
               /\ IF Has(cache, cacheKey) /\ Age(cache, cacheKey, now) < CACHE_TTL
                  THEN /\ cacheStats'.hits = cacheStats.hits + 1
                       /\ cacheStats'.misses = cacheStats.misses
                       /\ res'.body = cache[cacheKey].data
                  ELSE /\ cacheStats'.misses = cacheStats.misses + 1
                       /\ cacheStats'.hits = cacheStats.hits
                       /\ io'.read ) ]_vars

\* C5: clear answers with the number of entries the table held just before,
\* leaves the table empty and the three counters zero.
C5_Clear ==
    [][ CacheClear
        => ( /\ res'.body.clearedEntries = Cardinality(DOMAIN cache)
             /\ DOMAIN cache' = {}
             /\ cacheStats' = [hits |-> 0, misses |-> 0, totalRequests |-> 0] ) ]_vars

\* A clear of a table with one entry has been answered
C5_Witness ==
    /\ res.route = "cache-clear"
    /\ res.body.clearedEntries = 1
    /\ DOMAIN cache = {}

\* C6: a sweep removes only entries older than TTL: every entry whose age does
\* not exceed TTL stays, with its value and timestamp, and the counters are
\* unchanged.
C6_SweepFrame ==
    [][ Sweep
        => ( /\ \A k \in DOMAIN cache :
                   Age(cache, k, now) <= CACHE_TTL
                   => ( k \in DOMAIN cache' /\ cache'[k] = cache[k] )
             /\ \A k \in DOMAIN cache \ DOMAIN cache' : Age(cache, k, now) > CACHE_TTL
             /\ DOMAIN cache' \subseteq DOMAIN cache
             /\ cacheStats' = cacheStats ) ]_vars

\* The sweep due at the present time has run and has kept an entry exactly TTL old
C6_Witness ==
    /\ nextSweep = now + SWEEP_INTERVAL
    /\ Has(cache, cacheKey)
    /\ Age(cache, cacheKey, now) = CACHE_TTL

\* C7: the stats report gives hitRate as hits / totalRequests in percent,
\* rounded to two decimals (1 of 2 is "50.00%"), "0%" when totalRequests is 0,
\* and the size as the number of entries in the table, expired ones included.
C7_StatsReport ==
    [][ CacheStatsRequest
        => LET b == res'.body.stats
               h == cacheStats.hits
               n == cacheStats.totalRequests
           IN  /\ b.hits = h /\ b.misses = cacheStats.misses /\ b.totalRequests = n
               /\ b.cacheSize = Cardinality(DOMAIN cache)
               /\ n = 0 => b.hitRate = "0%"
               /\ n > 0 => \E p \in { (10000 * h) \div n, (10000 * h) \div n + 1 } :
                              /\ b.hitRate = Percent(p)
                              /\ 2 * Abs(p * n - 10000 * h) <= n
               /\ (h = 1 /\ n = 2) => b.hitRate = "50.00%"
               /\ (h = 2 /\ n = 3) => b.hitRate = "66.67%"
               /\ (h = 1 /\ n = 1) => b.hitRate = "100.00%" ]_vars

\* A stats report taken when the only entry had expired: 1 hit of 2, size 1
C7_Witness ==
    /\ res.route = "cache-stats"
    /\ res.body.stats.hitRate = "50.00%"
    /\ res.body.stats.cacheSize = 1
    /\ Has(cache, cacheKey)
    /\ res.body.timestamp - cache[cacheKey].timestamp >= CACHE_TTL

\* C8: no step other than a clear lowers hits, misses or totalRequests, and a
\* clear sets all three to zero together.
C8_CountersMonotone ==
    [][ \/ /\ cacheStats'.hits >= cacheStats.hits
           /\ cacheStats'.misses >= cacheStats.misses
           /\ cacheStats'.totalRequests >= cacheStats.totalRequests
        \/ /\ CacheClear
           /\ cacheStats'.hits = 0
           /\ cacheStats'.misses = 0
           /\ cacheStats'.totalRequests = 0 ]_vars

\* A clear has zeroed counters that a hit and a failed load had raised
C8_Witness ==
    /\ res.route = "cache-clear"
    /\ res.body.clearedEntries = 1
    /\ loadFailed
    /\ cacheStats.totalRequests = 0

\* The part of C9 about one request: a hit serves the stored payload without
\* reading the file and leaves the table alone; a miss reads the file once
\* and, if that succeeds, stores what it read and serves it.
C9_ServePath ==
    [][ DataStep
          => ( /\ ( cacheStats'.hits > cacheStats.hits )
                  => ( /\ res'.body = cache[cacheKey].data
                       /\ ~io'.read
                       /\ cache' = cache )
               /\ ( cacheStats'.misses > cacheStats.misses )
                  => ( /\ io'.read
                       /\ io'.got # LoadError
                          => ( /\ Has(cache', cacheKey)
                               /\ cache'[cacheKey] = [data |-> io'.got, timestamp |-> now]
                               /\ res'.status = 200
                               /\ res'.body = io'.got ) ) ) ]_vars

\* C9: a hit serves the stored payload without reading the file, a miss reads
\* the file, stores the payload and serves it; so once a miss has stored an
\* entry, every request is a hit, with no file read, until the TTL has
\* elapsed or a clear has removed the entry.
C9_ReadOncePerMiss ==
    [][ DataStep
          => ( /\ ( cacheStats'.hits > cacheStats.hits )
                  => ( res'.body = cache[cacheKey].data /\ ~io'.read )
               /\ ( cacheStats'.misses > cacheStats.misses )
                  => ( /\ io'.read
                       /\ io'.got # LoadError
                          => ( Has(cache', cacheKey) /\ res'.body = io'.got ) )
               /\ ( Has(cache, cacheKey) /\ Age(cache, cacheKey, now) < CACHE_TTL )
                  => ( cacheStats'.hits = cacheStats.hits + 1 /\ ~io'.read ) ) ]_vars

\* C10: a request whose file load fails is answered 500 and leaves the table
\* as it was; from then on every request is a miss until one has stored a
\* payload.
C10_FailedLoad ==
    [][ DataStep
          => ( /\ ( io'.read /\ io'.got = LoadError )
                  => ( res'.status = 500 /\ cache' = cache )
               /\ loadFailed
                  => ( /\ cacheStats'.misses = cacheStats.misses + 1
                       /\ cacheStats'.hits = cacheStats.hits
                       /\ io'.read ) ) ]_vars

\* Two loads in a row have failed while an expired entry stayed in the table
C10_Witness ==
    /\ loadFailed
    /\ res.status = 500
    /\ Has(cache, cacheKey)
    /\ Truthy(cache[cacheKey].data)
    /\ cacheStats.misses = 3

\* The step is the timer's sweep, a data request or a stats read
OtherOperation ==
    /\ pc' = pc
    /\ \/ Sweep
       \/ CacheStatsRequest
       \/ res'.route = "data" /\ \E referer \in Referers : DataRequest(referer, io'.got)

\* C11: no sweep, data request or stats read runs between the statement that
\* empties the table and the one that zeroes the counters, and when clear
\* answers, the table is still empty, the counters are still zero and the
\* table's size has not changed between its reading and its emptying.
C11_ClearAtomic ==
    [][ /\ OtherOperation => pc.at # "emptied"
        /\ ClearTable => Cardinality(DOMAIN cache) = pc.previousSize
        /\ ClearRespond
           => ( /\ DOMAIN cache = {}
                /\ cacheStats = [hits |-> 0, misses |-> 0, totalRequests |-> 0] ) ]_vars

\* The table is emptied, the counters are not yet zero and the sweep is due
C11_Witness ==
    /\ pc.at = "emptied"
    /\ pc.previousSize = 1
    /\ cacheStats.hits >= 1
    /\ now >= nextSweep

\* C12: the sweep and the lookup use one validity rule, valid iff
\* now - timestamp < TTL: a sweep removes an entry iff a lookup at the same
\* time treats it as expired, so every entry a sweep leaves is still valid.
C12_SameExpiryRule ==
    [][ Sweep
        => \A k \in DOMAIN cache :
              ( k \notin DOMAIN cache' ) <=> ~( Age(cache, k, now) < CACHE_TTL ) ]_vars

\* C13: setCachedData(k, v) makes the entry of k [v, now] whether k was
\* absent, valid or expired, so that k is valid for a full TTL from now;
\* the other entries and the counters stay, and the table grows by one entry
\* iff k was absent.
C13_SetFrame ==
    [][ \A key \in Keys, data \in Payloads :
          SetCall(key, data)
          => ( /\ Has(cache', key)
               /\ cache'[key] = [data |-> data, timestamp |-> now]
               /\ \A t \in TimePoints :
                     ( t >= now /\ t - now < CACHE_TTL )
                     => getCachedData(cache', key, t) = data
               /\ \A k \in DOMAIN cache \ {key} :
                     k \in DOMAIN cache' /\ cache'[k] = cache[k]
               /\ DOMAIN cache' = DOMAIN cache \cup {key}
               /\ Cardinality(DOMAIN cache')
                    = Cardinality(DOMAIN cache) + ( IF Has(cache, key) THEN 0 ELSE 1 )
               /\ cacheStats' = cacheStats ) ]_vars

\* An entry has just been stored at a time when the other key's entry, which
\* is still there unchanged, has expired
C13_Witness ==
    /\ Has(cache, cacheKey)
    /\ cache[cacheKey].timestamp = now
    /\ Has(cache, <<"k2">>)
    /\ Age(cache, <<"k2">>, now) >= CACHE_TTL

\* C14: no entry stays in the table for more than TTL + 10 minutes after it
\* was stored.
C14_GoneAfter40Minutes ==
    \A k \in DOMAIN cache : Age(cache, k, now) <= CACHE_TTL + SWEEP_INTERVAL

\* C14, amended: the timer is always due within 10 minutes and its callback
\* runs at most MaxLag late; a sweep removes every entry older than TTL; so
\* no entry stays for more than TTL + 10 minutes + the timer's lateness,
\* whatever requests are or are not made.
C14_GoneAfterNextSweep ==
    [][ /\ nextSweep' <= now' + SWEEP_INTERVAL
        /\ now' <= nextSweep' + MaxLag
        /\ Sweep => \A k \in DOMAIN cache :
                       Age(cache, k, now) > CACHE_TTL => k \notin DOMAIN cache'
        /\ \A k \in DOMAIN cache' :
              Age(cache', k, now') <= CACHE_TTL + SWEEP_INTERVAL + MaxLag ]_vars

\* An entry is older than TTL + 10 minutes, and the sweep that will remove it
\* is overdue
C14_Witness ==
    /\ Has(cache, cacheKey)
    /\ Age(cache, cacheKey, now) > CACHE_TTL + SWEEP_INTERVAL
    /\ now > nextSweep

\* The Referer header starts with none of the allowed origins
NoAllowedPrefix(referer) ==
    /\ referer.type = "string"
    /\ \A i \in 1..Len(allowedOrigins) : ~StartsWith(referer.val, allowedOrigins[i])

\* The step is a /api/data request with this Referer
DataStepFrom(referer) == res'.route = "data" /\ DataRequest(referer, io'.got)

\* The request was refused: 403, no payload, table and counters untouched,
\* file not read
Refused ==
    /\ res'.status = 403
    /\ res'.body \notin Payloads
    /\ cache' = cache
    /\ cacheStats' = cacheStats
    /\ ~io'.read

\* The request went on to the cache lookup: it was counted
LookedUp ==
    /\ res'.status # 403
    /\ cacheStats'.totalRequests = cacheStats.totalRequests + 1

\* C15: a data request whose Referer header starts with no allowed origin is
\* answered 403 without data and changes neither the table nor the counters;
\* one with no Referer header or an allowed one goes on to the lookup.
C15_RefererCheck ==
    [][ \A referer \in Referers :
          DataStepFrom(referer)
          => IF NoAllowedPrefix(referer) THEN Refused ELSE LookedUp ]_vars

\* C15, amended: the same for a non-empty Referer header; a request whose
\* Referer header is empty goes on to the lookup like one without the header.
C15_NonEmptyRefererCheck ==
    [][ \A referer \in Referers :
          DataStepFrom(referer)
          => IF NoAllowedPrefix(referer) /\ referer.val # <<>>
             THEN Refused
             ELSE LookedUp ]_vars

\* A request has been refused while the table held an entry and lookups had
\* been counted
C15_Witness ==
    /\ res.route = "data"
    /\ res.status = 403
    /\ Has(cache, cacheKey)
    /\ cacheStats.hits >= 1

\* C16: on a 200 response of /api/data, X-Cache-Status is HIT iff the request
\* was counted as a hit, and MISS iff it was counted as a miss and the
\* payload came from the file.
C16_HeaderMatchesCount ==
    [][ ( DataStep /\ res'.status = 200 )
        => ( /\ res'.xCacheStatus = "HIT"
                <=> cacheStats'.hits = cacheStats.hits + 1
             /\ res'.xCacheStatus = "MISS"
                <=> ( cacheStats'.misses = cacheStats.misses + 1 /\ io'.read ) ) ]_vars

\* C17: the table holds at most one entry, under the key 'wbjee_full_data',
\* so a stats report gives size 0 or 1 and clear answers 0 or 1.
C17_AtMostOneEntry ==
    /\ DOMAIN cache \subseteq { <<"wbjee_full_data">> }
    /\ Cardinality(DOMAIN cache) <= 1
    /\ res.route \in {"cache-stats", "cache-status"} => res.body.stats.cacheSize \in {0, 1}
    /\ res.route = "cache-clear" => res.body.clearedEntries \in {0, 1}

\* The status report lists the one key after two payloads were stored
C17_Witness ==
    /\ res.route = "cache-status"
    /\ res.body.cacheEntries = { <<"wbjee_full_data">> }
    /\ res.body.stats.cacheSize = 1
    /\ res.body.stats.misses >= 2

\* C18: when the activate handler has completed, whatever caches the browser
\* held, every cache named otherwise than 'wbjee-finder-v5' is deleted and
\* the cache of that name, if there was one, is not.
C18_ActivateCleans ==
    sw.phase = "activated"
    => ( /\ \A n \in sw.initial : n # "wbjee-finder-v5" => n \notin sw.caches
         /\ "wbjee-finder-v5" \in sw.initial => "wbjee-finder-v5" \in sw.caches )

\* Activation has completed in a browser that held the current cache and
\* three others
C18_Witness ==
    /\ sw.phase = "activated"
    /\ sw.caches = {"wbjee-finder-v5"}
    /\ Cardinality(sw.initial) = 4

====
